---- MODULE Spec2Model ----
(***************************************************************************)
(* Model of mindboggle/features/fundi.py: extract_fundi (the per-fold      *)
(* orchestration loop) and segment_fundi (relabeling by sulcus).           *)
(*                                                                         *)
(* Per-vertex arrays are functions over 0..n-1 (Python indices); the empty *)
(* list is the function with empty domain, << >>.  The Python list         *)
(* `skeletons` is modelled as the set of its elements: every use of it in  *)
(* the code (set intersection in the face filter, frozenset difference,    *)
(* index assignment) depends only on that set.                             *)
(***************************************************************************)
EXTENDS Integers, FiniteSets, Sequences, TLC

\* ------------------------------------------------------------- bounds
NumVertices == 4
MaxFoldID == 2
NumAnyVertices == 3
NumSegVertices == 3
MaxSulcusID == 2

\* ------------------------------------------------------------- constants
background_value == -1

VARIABLES
    \* extract_fundi: inputs and environment
    folds, faces, curv_file_exists, depth_file_exists, save_file,
    \* extract_fundi: control and locals
    pc, error, remaining, skeletons,
    \* extract_fundi: history of the collaborator calls
    iterations, raw, nonempty, readded,
    \* extract_fundi: returned values and output artifact
    fundus_per_fold, n_fundi_in_folds, fundus_per_fold_file,
    writer_invoked, artifact_exists,
    \* segment_fundi: inputs and environment
    seg_input, sulci, vtk_file_exists, seg_save_file,
    \* segment_fundi: control, returned values and output artifact
    seg_pc, seg_error, fundus_per_sulcus, n_fundi, fundus_per_sulcus_file,
    seg_writer_invoked, seg_artifact_exists

extract_vars == <<folds, faces, curv_file_exists, depth_file_exists, save_file,
                  pc, error, remaining, skeletons, iterations, raw, nonempty,
                  readded,
                  fundus_per_fold, n_fundi_in_folds, fundus_per_fold_file,
                  writer_invoked, artifact_exists>>

segment_vars == <<seg_input, sulci, vtk_file_exists, seg_save_file,
                  seg_pc, seg_error, fundus_per_sulcus, n_fundi,
                  fundus_per_sulcus_file, seg_writer_invoked,
                  seg_artifact_exists>>

vars == <<extract_vars, segment_vars>>

\* ------------------------------------------------------------- input sets
Vertices(n) == 0 .. (n - 1)
FoldIDs == 1 .. MaxFoldID
FoldLabelings(n) == [Vertices(n) -> FoldIDs \cup {background_value}]

\* Meshes: every sub-list of the faces of a triangle strip over n vertices.
TriangleStrip(n) == {{i, i + 1, i + 2} : i \in 0 .. (n - 3)}
Meshes(n) == SUBSET TriangleStrip(n)

SulcusIDs == 1 .. MaxSulcusID
SegInputs == FoldLabelings(NumSegVertices) \cup {<< >>}
SulcusLabelings ==
    [Vertices(NumSegVertices) -> SulcusIDs \cup {background_value}] \cup {<< >>}

None == "None"
Min(S) == CHOOSE x \in S : \A y \in S : x <= y
Max(S) == CHOOSE x \in S : \A y \in S : x >= y

\* ------------------------------------------------------------- extract_fundi
\* A plausible slip: the background value is not excluded from the fold IDs.
unique_fold_IDs_with_background(f) == {f[v] : v \in DOMAIN f}

\* np.unique(folds) without the background value (the loop visits it in
\* ascending order).
unique_fold_IDs(f) == {f[v] : v \in DOMAIN f} \ {background_value}

indices_fold(f, fold_ID) == {i \in DOMAIN f : f[i] = fold_ID}

\* B = background_value * ones(npoints); B[indices_fold] = 1
Mask(f, fold_ID) ==
    [i \in DOMAIN f |-> IF i \in indices_fold(f, fold_ID) THEN 1 ELSE background_value]

\* Skeleton Connector: the skeletons it may return for a membership mask.
\* It erodes the masked region, so a skeleton is a set of mask members.
connect_points_erosion(B) == SUBSET {i \in DOMAIN B : B[i] = 1}

\* The connector with no assumption on what it returns: any vertex list.
connect_points_any(B) == SUBSET DOMAIN B

\* Face-Completion Filter: the vertices of every face whose three vertices
\* all lie in the given index set.
find_complete_faces(indices, fs) ==
    UNION {face \in fs : Cardinality(face \cap indices) = 3}

\* if skeleton: skeletons.extend(skeleton)
Extend(skels, skeleton) == IF skeleton # {} THEN skels \cup skeleton ELSE skels

\* A plausible slip: the flagged vertices are computed but never removed.
RemoveCompleteFaces_never(skels, fs) == skels

\* A plausible slip: only the first flagged vertex is removed.
RemoveCompleteFaces_first(skels, fs) ==
    LET Iremove == find_complete_faces(skels, fs)
    IN  IF Iremove # {} THEN skels \ {Min(Iremove)} ELSE skels

\* Iremove = find_complete_faces(skeletons, faces)
\* if Iremove: skeletons = list(frozenset(skeletons).difference(Iremove))
RemoveCompleteFaces(skels, fs) ==
    LET Iremove == find_complete_faces(skels, fs)
    IN  IF Iremove # {} THEN skels \ Iremove ELSE skels

\* indices_skel = [x for x in skeletons if folds[x] != background_value]
indices_skel(skels, f) == {x \in skels : f[x] # background_value}

\* A plausible slip: skeleton vertices are labeled with the loop variable
\* fold_ID (the last fold visited) instead of their own fold label.
FundusPerFold_last_fold_ID(skels, f) ==
    [v \in DOMAIN f |-> IF v \in indices_skel(skels, f)
                          THEN Max(unique_fold_IDs(f))
                          ELSE background_value]

\* A plausible slip: the skeleton is not restricted to labeled vertices and
\* every skeleton vertex is numbered by its index.
FundusPerFold_by_index(skels, f) ==
    [v \in DOMAIN f |-> IF v \in skels THEN v + 1 ELSE background_value]

\* fundus_per_fold = background_value * ones(npoints)
\* fundus_per_fold[indices_skel] = folds[indices_skel]
FundusPerFold(skels, f) ==
    [v \in DOMAIN f |-> IF v \in indices_skel(skels, f) THEN f[v] ELSE background_value]

\* A plausible slip: np.unique is forgotten and vertices are counted.
CountLabels_vertices(a) == Cardinality({v \in DOMAIN a : a[v] # background_value})

\* len([x for x in np.unique(a) if x != background_value])
CountLabels(a) == Cardinality({a[v] : v \in DOMAIN a} \ {background_value})

\* A plausible slip: the existence check after the write is left out.
VerifyOutput_unchecked(exists) == "none"

\* if not os.path.exists(file): raise IOError(file + " not found")
VerifyOutput(exists) == IF exists THEN "none" ELSE "IOError_output_not_found"

\* ------------------------------------------------------------- segment_fundi
\* indices = [i for i,x in enumerate(fundus_per_fold) if x != background_value]
seg_indices(fpf) == {i \in DOMAIN fpf : fpf[i] # background_value}

\* A plausible slip: the sulcus labels are copied at every vertex.
SulcusRelabel_unmasked(fpf, s) == s

\* if indices and np.size(sulci):
\*     fundus_per_sulcus = background_value * ones(len(sulci))
\*     fundus_per_sulcus[indices] = sulci[indices]
\* else: fundus_per_sulcus = []
SulcusRelabel(fpf, s) ==
    IF seg_indices(fpf) # {} /\ DOMAIN s # {}
      THEN [i \in DOMAIN s |-> IF i \in seg_indices(fpf) THEN s[i]
                                                        ELSE background_value]
      ELSE << >>

\* n_fundi: the count of distinct labels, or 0 in the else branch.
SulcusCount(fpf, s) ==
    IF seg_indices(fpf) # {} /\ DOMAIN s # {}
      THEN CountLabels(SulcusRelabel(fpf, s))
      ELSE 0

\* A plausible slip: the source mesh is not checked before writing.
SegShouldWrite_no_source_check(n, save, vtk_exists) == n > 0 /\ save

\* if n_fundi > 0: ... if save_file and os.path.exists(vtk_file):
SegShouldWrite(n, save, vtk_exists) == n > 0 /\ save /\ vtk_exists

\* ------------------------------------------------------------- initial states
ExtractIdle ==
    /\ folds = << >>
    /\ faces = {}
    /\ curv_file_exists = FALSE
    /\ depth_file_exists = FALSE
    /\ save_file = FALSE
    /\ pc = "idle"
    /\ error = "none"
    /\ remaining = {}
    /\ skeletons = {}
    /\ iterations = 0
    /\ raw = {}
    /\ nonempty = {}
    /\ readded = FALSE
    /\ fundus_per_fold = << >>
    /\ n_fundi_in_folds = 0
    /\ fundus_per_fold_file = None
    /\ writer_invoked = FALSE
    /\ artifact_exists = FALSE

SegmentIdle ==
    /\ seg_input = << >>
    /\ sulci = << >>
    /\ vtk_file_exists = FALSE
    /\ seg_save_file = FALSE
    /\ seg_pc = "idle"
    /\ seg_error = "none"
    /\ fundus_per_sulcus = << >>
    /\ n_fundi = 0
    /\ fundus_per_sulcus_file = None
    /\ seg_writer_invoked = FALSE
    /\ seg_artifact_exists = FALSE

\* A call of extract_fundi on a mesh of n vertices.
ExtractCall(n) ==
    /\ folds \in FoldLabelings(n)
    /\ faces \in Meshes(n)
    /\ curv_file_exists \in BOOLEAN
    /\ depth_file_exists \in BOOLEAN
    /\ save_file \in BOOLEAN
    /\ pc = "start"
    /\ error = "none"
    /\ remaining = {}
    /\ skeletons = {}
    /\ iterations = 0
    /\ raw = {}
    /\ nonempty = {}
    /\ readded = FALSE
    /\ fundus_per_fold = << >>
    /\ n_fundi_in_folds = 0
    /\ fundus_per_fold_file = None
    /\ writer_invoked = FALSE
    /\ artifact_exists = FALSE

\* A call of segment_fundi.
SegmentCall ==
    /\ seg_input \in SegInputs
    /\ sulci \in SulcusLabelings
    /\ vtk_file_exists \in BOOLEAN
    /\ seg_save_file \in BOOLEAN
    /\ seg_pc = "start"
    /\ seg_error = "none"
    /\ fundus_per_sulcus = << >>
    /\ n_fundi = 0
    /\ fundus_per_sulcus_file = None
    /\ seg_writer_invoked = FALSE
    /\ seg_artifact_exists = FALSE

Init == ExtractCall(NumVertices) /\ SegmentIdle

InitAny == ExtractCall(NumAnyVertices) /\ SegmentIdle

InitSeg == ExtractIdle /\ SegmentCall

\* ------------------------------------------------------------- actions
\* Lines 116-136: the two file checks, the reads, and the fold enumeration.
\* The second check tests curv_file again, so a missing depth file is only
\* met by the reader read_scalars, which fails with a not-found error.
LoadInputs ==
    /\ pc = "start"
    /\ IF ~curv_file_exists
         THEN /\ pc' = "failed"
              /\ error' = "IOError_validation_curv"
              /\ UNCHANGED remaining
         ELSE IF ~curv_file_exists
           THEN /\ pc' = "failed"
                /\ error' = "IOError_validation_depth"
                /\ UNCHANGED remaining
           ELSE IF ~depth_file_exists
             THEN /\ pc' = "failed"
                  /\ error' = "IOError_reader_depth"
                  /\ UNCHANGED remaining
             ELSE /\ pc' = "loop"
                  /\ error' = "none"
                  /\ remaining' = unique_fold_IDs(folds)
    /\ UNCHANGED <<folds, faces, curv_file_exists, depth_file_exists, save_file,
                   skeletons, iterations, raw, nonempty, readded,
                   fundus_per_fold, n_fundi_in_folds, fundus_per_fold_file,
                   writer_invoked, artifact_exists, segment_vars>>

\* Lines 145-181: one iteration of the fold loop, with the skeleton the
\* connector returns for this fold.
FoldStep(skeleton) ==
    LET fold_ID == Min(remaining)
        extended == Extend(skeletons, skeleton)
    IN  /\ IF indices_fold(folds, fold_ID) # {}
             THEN /\ skeletons' = RemoveCompleteFaces(extended, faces)
                  /\ iterations' = iterations + 1
                  /\ raw' = raw \cup skeleton
                  /\ nonempty' = IF skeleton # {} THEN nonempty \cup {fold_ID}
                                                  ELSE nonempty
                  /\ readded' = (readded \/ (skeleton \cap (raw \ skeletons)) # {})
             ELSE UNCHANGED <<skeletons, iterations, raw, nonempty, readded>>
        /\ remaining' = remaining \ {fold_ID}
        /\ UNCHANGED <<folds, faces, curv_file_exists, depth_file_exists,
                       save_file, pc, error, fundus_per_fold, n_fundi_in_folds,
                       fundus_per_fold_file, writer_invoked, artifact_exists,
                       segment_vars>>

ProcessFold ==
    /\ pc = "loop"
    /\ remaining # {}
    /\ \E skeleton \in connect_points_erosion(Mask(folds, Min(remaining))) :
          FoldStep(skeleton)

ProcessFoldAny ==
    /\ pc = "loop"
    /\ remaining # {}
    /\ \E skeleton \in connect_points_any(Mask(folds, Min(remaining))) :
          FoldStep(skeleton)

\* Lines 183-210: build the labeling, count, write and verify, return.
\* `created` is whether the output file exists after the writer returned.
Finish ==
    /\ pc = "loop"
    /\ remaining = {}
    /\ LET fpf == FundusPerFold(skeletons, folds)
           n == CountLabels(fpf)
       IN  IF n > 0 /\ save_file
             THEN \E created \in BOOLEAN :
                    /\ writer_invoked' = TRUE
                    /\ artifact_exists' = created
                    /\ error' = VerifyOutput(created)
                    /\ IF VerifyOutput(created) = "none"
                         THEN /\ pc' = "done"
                              /\ fundus_per_fold' = fpf
                              /\ n_fundi_in_folds' = n
                              /\ fundus_per_fold_file' = "fundus_per_fold.vtk"
                         ELSE /\ pc' = "failed"
                              /\ UNCHANGED <<fundus_per_fold, n_fundi_in_folds,
                                             fundus_per_fold_file>>
             ELSE /\ pc' = "done"
                  /\ fundus_per_fold' = fpf
                  /\ n_fundi_in_folds' = n
                  /\ fundus_per_fold_file' = None
                  /\ UNCHANGED <<error, writer_invoked, artifact_exists>>
    /\ UNCHANGED <<folds, faces, curv_file_exists, depth_file_exists, save_file,
                   remaining, skeletons, iterations, raw, nonempty, readded,
                   segment_vars>>

\* Lines 299-339: the whole of segment_fundi.
SegmentFundi ==
    /\ seg_pc = "start"
    /\ LET fps == SulcusRelabel(seg_input, sulci)
           n == SulcusCount(seg_input, sulci)
       IN  IF SegShouldWrite(n, seg_save_file, vtk_file_exists)
             THEN \E created \in BOOLEAN :
                    /\ seg_writer_invoked' = TRUE
                    /\ seg_artifact_exists' = created
                    /\ seg_error' = VerifyOutput(created)
                    /\ IF VerifyOutput(created) = "none"
                         THEN /\ seg_pc' = "done"
                              /\ fundus_per_sulcus' = fps
                              /\ n_fundi' = n
                              /\ fundus_per_sulcus_file' = "fundus_per_sulcus.vtk"
                         ELSE /\ seg_pc' = "failed"
                              /\ UNCHANGED <<fundus_per_sulcus, n_fundi,
                                             fundus_per_sulcus_file>>
             ELSE /\ seg_pc' = "done"
                  /\ fundus_per_sulcus' = fps
                  /\ n_fundi' = n
                  /\ fundus_per_sulcus_file' = None
                  /\ UNCHANGED <<seg_error, seg_writer_invoked,
                                 seg_artifact_exists>>
    /\ UNCHANGED <<seg_input, sulci, vtk_file_exists, seg_save_file,
                   extract_vars>>

Next == LoadInputs \/ ProcessFold \/ Finish

Spec == Init /\ [][Next]_vars

NextAny == LoadInputs \/ ProcessFoldAny \/ Finish

SpecAny == InitAny /\ [][NextAny]_vars

NextSeg == SegmentFundi

SpecSeg == InitSeg /\ [][NextSeg]_vars

\* ------------------------------------------------------------- properties
InputErrors == {"IOError_validation_curv", "IOError_validation_depth",
                "IOError_reader_depth"}

NonBackground(a) == {v \in DOMAIN a : a[v] # background_value}

AllBackground == \A v \in DOMAIN folds : folds[v] = background_value

\* The result of the deferred ordering: all per-fold skeletons are
\* accumulated first and the filter is applied once after the loop.
PostLoopSkeleton == raw \ find_complete_faces(raw, faces)

PostLoopFundus == FundusPerFold(PostLoopSkeleton, folds)

\* Some face fully covered by the accumulated skeletons has vertices in more
\* than one fold.
CrossFoldCompleteFace ==
    \E face \in faces :
        /\ face \subseteq raw
        /\ \E v, w \in face : folds[v] # folds[w]

\* C1: label fidelity.  In the returned fundus_per_fold every non-background
\* vertex carries its own fold label, whatever vertex list the connector
\* returned; so no vertex carries another fold's ID and no background vertex
\* of the fold labeling is labeled.
C1_LabelFidelity ==
    pc = "done" =>
        /\ DOMAIN fundus_per_fold = DOMAIN folds
        /\ \A v \in DOMAIN fundus_per_fold :
              fundus_per_fold[v] # background_value
                  => fundus_per_fold[v] = folds[v]

\* C1 witness: the connector returned a background vertex, and a labeled
\* vertex of the result was returned by the call for another fold (the call
\* for its own fold returned nothing).
C1_Witness ==
    /\ pc = "done"
    /\ \E v \in raw : folds[v] = background_value
    /\ \E v \in raw :
          /\ folds[v] \notin nonempty \cup {background_value}
          /\ fundus_per_fold[v] = folds[v]

\* C2: count consistency.  The returned count is the number of distinct
\* non-background labels of the returned labeling, and it is at most the
\* number of folds whose connector call returned a non-empty skeleton.
C2_CountConsistency ==
    pc = "done" =>
        /\ n_fundi_in_folds =
              Cardinality({l \in FoldIDs :
                              \E v \in DOMAIN fundus_per_fold :
                                  fundus_per_fold[v] = l})
        /\ n_fundi_in_folds <= Cardinality(nonempty)

\* C2 witness: the count is strictly below the number of folds with a
\* non-empty skeleton.
C2_Witness ==
    /\ pc = "done"
    /\ n_fundi_in_folds = 0
    /\ nonempty # {}

\* C3: a missing curvature or depth file makes extract_fundi fail in its own
\* input validation, before anything is computed, with nothing returned.
C3_InputMissingFailsInValidation ==
    (pc # "start" /\ (~curv_file_exists \/ ~depth_file_exists)) =>
        /\ pc = "failed"
        /\ error \in {"IOError_validation_curv", "IOError_validation_depth"}
        /\ iterations = 0
        /\ fundus_per_fold = << >>
        /\ fundus_per_fold_file = None

\* C4: output existence.  With save_file and a positive count the call either
\* returns a path to an existing artifact or fails with the verification
\* error after the write attempt; a returned path never names a missing
\* artifact; with a count of 0 the path is null and the writer is not invoked.
C4_OutputExistence ==
    LET count == CountLabels(FundusPerFold(skeletons, folds))
    IN  /\ (pc \in {"done", "failed"} /\ error \notin InputErrors
              /\ save_file /\ count > 0) =>
              /\ writer_invoked
              /\ \/ /\ pc = "done"
                    /\ fundus_per_fold_file # None
                    /\ artifact_exists
                 \/ /\ pc = "failed"
                    /\ error = "IOError_output_not_found"
                    /\ fundus_per_fold_file = None
        /\ fundus_per_fold_file # None => artifact_exists
        /\ (pc = "done" /\ n_fundi_in_folds = 0) =>
              /\ fundus_per_fold_file = None
              /\ ~writer_invoked

\* C4 witness: the write was attempted, the artifact is missing, the call
\* failed with the verification error.
C4_Witness ==
    /\ pc = "failed"
    /\ save_file
    /\ writer_invoked
    /\ ~artifact_exists
    /\ error = "IOError_output_not_found"

\* C5: with an all-background fold labeling the loop runs no iteration, the
\* call does not fail once its inputs are loaded, the returned labeling is
\* background everywhere, the count is 0 and no artifact is written or
\* returned, whatever save_file.
C5_EmptyFolds ==
    AllBackground =>
        /\ iterations = 0
        /\ raw = {}
        /\ ~writer_invoked
        /\ pc = "failed" => error \in InputErrors
        /\ pc = "loop" => remaining = {}
        /\ pc = "done" =>
              /\ \A v \in DOMAIN folds : fundus_per_fold[v] = background_value
              /\ DOMAIN fundus_per_fold = DOMAIN folds
              /\ n_fundi_in_folds = 0
              /\ fundus_per_fold_file = None

\* C5 witness: an all-background call with save_file requested has returned.
C5_Witness ==
    /\ AllBackground
    /\ save_file
    /\ pc = "done"

\* C6: relabeling and subset law of segment_fundi.
C6_Relabeling ==
    seg_pc = "done" =>
        LET S == {v \in DOMAIN seg_input : seg_input[v] # background_value}
        IN  IF S # {} /\ sulci # << >>
              THEN /\ DOMAIN fundus_per_sulcus = DOMAIN sulci
                   /\ \A v \in DOMAIN sulci :
                         fundus_per_sulcus[v] =
                             IF v \in S THEN sulci[v] ELSE background_value
                   /\ NonBackground(fundus_per_sulcus) \subseteq S
              ELSE /\ fundus_per_sulcus = << >>
                   /\ n_fundi = 0

\* C6 witness: a relabeling where a fundus vertex has a background sulcus
\* label and a non-fundus vertex has a sulcus label.
C6_Witness ==
    /\ seg_pc = "done"
    /\ fundus_per_sulcus # << >>
    /\ \E v \in DOMAIN sulci :
          seg_input[v] # background_value /\ sulci[v] = background_value
    /\ \E v \in DOMAIN sulci :
          seg_input[v] = background_value /\ sulci[v] # background_value
    /\ NonBackground(fundus_per_sulcus) # {}

\* C7 as claimed: filtering after every fold and filtering once after the
\* loop return the same labeling.
C7_OrderingEquivalence ==
    pc = "done" => fundus_per_fold = PostLoopFundus

\* C7 amended: the labeling of the deferred ordering is contained in the
\* returned one, and the two are equal when no face fully covered by the
\* accumulated skeletons has vertices in more than one fold.
C7_OrderingContainment ==
    pc = "done" =>
        /\ \A v \in DOMAIN folds :
              PostLoopFundus[v] # background_value
                  => fundus_per_fold[v] = PostLoopFundus[v]
        /\ ~CrossFoldCompleteFace => fundus_per_fold = PostLoopFundus

\* C7 witness: two folds contributed, the filter removed the vertices of a
\* face lying in one fold, and both orderings agree.
C7_Witness ==
    /\ pc = "done"
    /\ Cardinality(nonempty) >= 2
    /\ skeletons # raw
    /\ skeletons # {}
    /\ ~CrossFoldCompleteFace

\* C8 as claimed: with save_file and a positive count segment_fundi never
\* returns a null path.
C8_SegOutputExistence ==
    (seg_pc = "done" /\ seg_save_file /\ n_fundi > 0) =>
        /\ fundus_per_sulcus_file # None
        /\ seg_artifact_exists

\* C8 amended: with save_file, a positive count and an existing source mesh
\* file the call returns a path to an existing artifact or fails with the
\* verification error; when the source mesh file does not exist it returns a
\* null path without invoking the writer and without an error.
C8_SegOutputExistenceIfSource ==
    LET count == SulcusCount(seg_input, sulci)
    IN  /\ (seg_pc \in {"done", "failed"} /\ seg_save_file /\ count > 0
              /\ vtk_file_exists) =>
              /\ seg_writer_invoked
              /\ \/ /\ seg_pc = "done"
                    /\ fundus_per_sulcus_file # None
                    /\ seg_artifact_exists
                 \/ /\ seg_pc = "failed"
                    /\ seg_error = "IOError_output_not_found"
                    /\ fundus_per_sulcus_file = None
        /\ (seg_pc # "start" /\ ~vtk_file_exists) =>
              /\ seg_pc = "done"
              /\ fundus_per_sulcus_file = None
              /\ ~seg_writer_invoked
              /\ seg_error = "none"
        /\ fundus_per_sulcus_file # None => seg_artifact_exists

\* C8 witness: save_file requested, a positive count, no source mesh file,
\* and a null path returned.
C8_Witness ==
    /\ seg_pc = "done"
    /\ seg_save_file
    /\ n_fundi > 0
    /\ ~vtk_file_exists
    /\ fundus_per_sulcus_file = None

\* C9 as claimed: the count equals the number of folds whose connector call
\* returned a non-empty skeleton.
C9_CountEqualsNonEmptyFolds ==
    pc = "done" => n_fundi_in_folds = Cardinality(nonempty)

\* C9 amended: the count equals the number of folds with a non-empty
\* skeleton that keep at least one skeleton vertex after the face-completion
\* removals; it equals the number of folds with a non-empty skeleton when
\* the filter removed nothing.
C9_CountEqualsSurvivingFolds ==
    pc = "done" =>
        /\ n_fundi_in_folds =
              Cardinality({f \in nonempty :
                              \E v \in skeletons : folds[v] = f})
        /\ skeletons = raw => n_fundi_in_folds = Cardinality(nonempty)

\* C9 witness: two folds had a non-empty skeleton and one of them lost all
\* of its skeleton vertices to the filter.
C9_Witness ==
    /\ pc = "done"
    /\ Cardinality(nonempty) = 2
    /\ n_fundi_in_folds = 1

\* C10: after every loop iteration no face has its three vertices in the
\* accumulated skeleton, and no face has three non-background vertices in
\* the returned labeling, also when a later skeleton re-adds a vertex that
\* was removed after an earlier fold.
C10_NoCompleteFace ==
    /\ pc \in {"loop", "done"} =>
          \A face \in faces : ~(face \subseteq skeletons)
    /\ pc = "done" =>
          \A face \in faces :
              \E v \in face : fundus_per_fold[v] = background_value

\* C10 witness: a removed vertex was re-added by a later skeleton and the
\* returned labeling still has labeled vertices of a face.
C10_Witness ==
    /\ pc = "done"
    /\ readded
    /\ \E face \in faces :
          \E v \in face : fundus_per_fold[v] # background_value

====
